---------------------------- MODULE Spec2Model ----------------------------
(***************************************************************************)
(* The cart / checkout state machine of demo-app/app.js.                   *)
(*                                                                         *)
(* The application keeps its amounts in JavaScript Numbers, i.e. IEEE-754  *)
(* binary64 values.  The first part of the module is an exact model of     *)
(* the binary64 operations the pricing code uses (literal conversion, *,   *)
(* +, and formatting to two decimals); the second part is the state        *)
(* machine of the event handlers and timers.                               *)
(***************************************************************************)
EXTENDS Integers, Sequences, FiniteSets, TLC

(***************************************************************************)
(* Natural numbers of arbitrary size: little-endian sequences of limbs,    *)
(* no most-significant zero limb, <<>> is zero.                            *)
(***************************************************************************)
LimbBits == 13

Base == 2 ^ LimbBits

RECURSIVE BigNorm(_)
BigNorm(s) ==
    IF s = <<>> THEN <<>>
    ELSE IF s[Len(s)] = 0 THEN BigNorm(SubSeq(s, 1, Len(s) - 1))
    ELSE s

RECURSIVE BigFromInt(_)
BigFromInt(n) ==
    IF n = 0 THEN <<>> ELSE <<n % Base>> \o BigFromInt(n \div Base)

RECURSIVE BigToInt(_)
BigToInt(s) ==
    IF s = <<>> THEN 0 ELSE s[1] + Base * BigToInt(Tail(s))

\* Propagates carries through a sequence of column sums.
RECURSIVE Carry(_, _, _)
Carry(cols, i, c) ==
    IF i > Len(cols)
    THEN BigFromInt(c)
    ELSE LET t == cols[i] + c
         IN  <<t % Base>> \o Carry(cols, i + 1, t \div Base)

Limb(s, i) == IF i >= 1 /\ i <= Len(s) THEN s[i] ELSE 0

MaxOf(a, b) == IF a >= b THEN a ELSE b

MinOf(a, b) == IF a <= b THEN a ELSE b

BigAdd(a, b) ==
    BigNorm(Carry([k \in 1..MaxOf(Len(a), Len(b)) |-> Limb(a, k) + Limb(b, k)], 1, 0))

RECURSIVE ColSum(_, _, _, _)
ColSum(a, b, k, i) ==
    IF i > Len(a) \/ i > k THEN 0
    ELSE a[i] * Limb(b, k + 1 - i) + ColSum(a, b, k, i + 1)

BigMul(a, b) ==
    IF a = <<>> \/ b = <<>> THEN <<>>
    ELSE BigNorm(Carry([k \in 1..(Len(a) + Len(b) - 1) |-> ColSum(a, b, k, 1)], 1, 0))

\* 2^k as a big number.
BigPow2(k) ==
    [i \in 1..(k \div LimbBits + 1) |->
        IF i = k \div LimbBits + 1 THEN 2 ^ (k % LimbBits) ELSE 0]

BigShiftLeft(a, k) == BigMul(a, BigPow2(k))

\* floor(a / 2^k)
BigShiftRight(a, k) ==
    LET w == k \div LimbBits
        r == k % LimbBits
    IN  IF Len(a) <= w THEN <<>>
        ELSE BigNorm([i \in 1..(Len(a) - w) |->
                 (a[i + w] \div (2 ^ r))
                   + (Limb(a, i + w + 1) % (2 ^ r)) * (2 ^ (LimbBits - r))])

\* Bit i (bit 0 is the least significant) of a.
BigBit(a, i) == (Limb(a, i \div LimbBits + 1) \div (2 ^ (i % LimbBits))) % 2

\* TRUE iff the k least significant bits of a are all zero.
BigLowZero(a, k) ==
    /\ \A i \in 1..MinOf(k \div LimbBits, Len(a)) : a[i] = 0
    /\ Limb(a, k \div LimbBits + 1) % (2 ^ (k % LimbBits)) = 0

BigBitLen(a) ==
    IF a = <<>> THEN 0
    ELSE (Len(a) - 1) * LimbBits
           + (CHOOSE n \in 1..LimbBits :
                  a[Len(a)] >= 2 ^ (n - 1) /\ a[Len(a)] < 2 ^ n)

\* floor(a / d) and a mod d for a small divisor d, by long division from
\* the most significant limb; the result is <<quotient, remainder>>.
RECURSIVE BigDivSmall(_, _)
BigDivSmall(a, d) ==
    IF a = <<>> THEN << <<>>, 0 >>
    ELSE LET hi  == BigDivSmall(Tail(a), d)
             cur == hi[2] * Base + a[1]
         IN  << BigNorm(<<cur \div d>> \o hi[1]), cur % d >>

(***************************************************************************)
(* IEEE-754 binary64.  A finite non-negative double is [m, e] with value   *)
(* m * 2^e; the representation is canonical: m has exactly MantissaBits    *)
(* bits, and zero is [m |-> <<>>, e |-> 0].  The amounts of the            *)
(* application are far from the subnormal and overflow ranges.             *)
(***************************************************************************)
MantissaBits == 53

FZero == [m |-> <<>>, e |-> 0]

\* Round-to-nearest, ties-to-even, of the exact value m * 2^e.
FRound(m, e) ==
    LET len == BigBitLen(m)
    IN  IF len = 0 THEN FZero
        ELSE IF len <= MantissaBits
        THEN [m |-> BigShiftLeft(m, MantissaBits - len), e |-> e - (MantissaBits - len)]
        ELSE LET k    == len - MantissaBits
                 q    == BigShiftRight(m, k)
                 up   == BigBit(m, k - 1) = 1
                           /\ (~BigLowZero(m, k - 1) \/ BigBit(q, 0) = 1)
                 q2   == IF up THEN BigAdd(q, <<1>>) ELSE q
             IN  IF BigBitLen(q2) > MantissaBits
                 THEN [m |-> BigShiftRight(q2, 1), e |-> e + k + 1]
                 ELSE [m |-> q2, e |-> e + k]

\* The double nearest to the rational n / d (n, d small naturals, d > 0):
\* what reading a decimal literal such as 1299.99 or 0.1 produces.
ScaleBits == 64

FFromRatio(n, d) ==
    LET dv     == BigDivSmall(BigShiftLeft(BigFromInt(n), ScaleBits), d)
        sticky == IF dv[2] = 0 THEN <<>> ELSE <<1>>
    IN  FRound(BigAdd(BigShiftLeft(dv[1], 1), sticky), 0 - ScaleBits - 1)

\* An integer as a double (exact below 2^53).
FFromInt(n) == FRound(BigFromInt(n), 0)

\* x * y
FMul(x, y) ==
    IF x.m = <<>> \/ y.m = <<>> THEN FZero
    ELSE FRound(BigMul(x.m, y.m), x.e + y.e)

\* x + y
FAdd(x, y) ==
    IF x.m = <<>> THEN y
    ELSE IF y.m = <<>> THEN x
    ELSE LET e == MinOf(x.e, y.e)
         IN  FRound(BigAdd(BigShiftLeft(x.m, x.e - e), BigShiftLeft(y.m, y.e - e)), e)

\* The integer nearest to x * scale, halves rounded up (away from zero):
\* with scale 100 this is the digit string that Number.prototype.toFixed(2)
\* prints, which rounds the exact value of the double.
FRoundScaled(x, scale) ==
    LET X == BigMul(x.m, BigFromInt(scale))
    IN  IF x.m = <<>> THEN 0
        ELSE IF x.e >= 0 THEN BigToInt(BigShiftLeft(X, x.e))
        ELSE LET k == 0 - x.e
             IN  BigToInt(BigShiftRight(X, k)) + BigBit(X, k - 1)

\* floor(x) for a double below 2^31.
FFloor(x) ==
    IF x.m = <<>> THEN 0
    ELSE IF x.e >= 0 THEN BigToInt(BigShiftLeft(x.m, x.e))
    ELSE BigToInt(BigShiftRight(x.m, 0 - x.e))

(***************************************************************************)
(* Product data.                                                           *)
(***************************************************************************)
\* The catalog keys in the order the object literal lists them.
SkuOrder == <<"LAPTOP-001", "HEADPHONES-001", "KEYBOARD-001", "MOUSE-001">>

\* The price literals of the catalog, in cents (1299.99 is 129999 / 100).
PriceLiteral ==
    [sku \in {SkuOrder[i] : i \in 1..Len(SkuOrder)} |->
        CASE sku = "LAPTOP-001"     -> 129999
          [] sku = "HEADPHONES-001" -> 29999
          [] sku = "KEYBOARD-001"   -> 14999
          [] sku = "MOUSE-001"      -> 7999]

ProductName ==
    [sku \in {SkuOrder[i] : i \in 1..Len(SkuOrder)} |->
        CASE sku = "LAPTOP-001"     -> "Gaming Laptop Pro"
          [] sku = "HEADPHONES-001" -> "Wireless Headphones Pro"
          [] sku = "KEYBOARD-001"   -> "Mechanical Keyboard RGB"
          [] sku = "MOUSE-001"      -> "Gaming Mouse Ultra"]

\* const products: each price is the double its literal denotes.
products ==
    [sku \in DOMAIN PriceLiteral |->
        [name |-> ProductName[sku], price |-> FFromRatio(PriceLiteral[sku], 100)]]

(***************************************************************************)
(* Cart operations on values.  A cart is a sequence of line items          *)
(* [sku, name, price, quantity]; JavaScript's 0-based index k is           *)
(* position k + 1 of the sequence.                                         *)
(***************************************************************************)
\* cart.find(item => item.sku === sku): the position of the first match, 0 if none.
FindSku(c, sku) ==
    IF \E i \in 1..Len(c) : c[i].sku = sku
    THEN CHOOSE i \in 1..Len(c) :
             c[i].sku = sku /\ \A j \in 1..(i - 1) : c[j].sku # sku
    ELSE 0

\* addToCart without the lookup: every call appends a line item.
addToCartAlwaysPush(c, sku) ==
    Append(c, [sku      |-> sku,
               name     |-> products[sku].name,
               price    |-> products[sku].price,
               quantity |-> 1])

\* addToCart with "existingItem.quantity = 1" for "+= 1".
addToCartAssign(c, sku) ==
    LET existingItem == FindSku(c, sku)
    IN  IF existingItem # 0
        THEN [c EXCEPT ![existingItem].quantity = 1]
        ELSE Append(c, [sku      |-> sku,
                        name     |-> products[sku].name,
                        price    |-> products[sku].price,
                        quantity |-> 1])

\* addToCart with cart.unshift for cart.push.
addToCartFirst(c, sku) ==
    LET existingItem == FindSku(c, sku)
    IN  IF existingItem # 0
        THEN [c EXCEPT ![existingItem].quantity = @ + 1]
        ELSE <<[sku      |-> sku,
                name     |-> products[sku].name,
                price    |-> products[sku].price,
                quantity |-> 1]>> \o c

\* The cart after the first statement block of addToCart(sku).
addToCart(c, sku) ==
    LET existingItem == FindSku(c, sku)
    IN  IF existingItem # 0
        THEN [c EXCEPT ![existingItem].quantity = @ + 1]
        ELSE Append(c, [sku      |-> sku,
                        name     |-> products[sku].name,
                        price    |-> products[sku].price,
                        quantity |-> 1])

\* cart.splice(index, 1): an index past the end removes nothing.
Splice(c, index) ==
    IF index + 1 > Len(c) THEN c
    ELSE [i \in 1..(Len(c) - 1) |-> IF i < index + 1 THEN c[i] ELSE c[i + 1]]

\* updateQuantity that clamps the quantity at 0 and keeps the line item.
updateQuantityClamp(c, index, change) ==
    LET c1 == [c EXCEPT ![index + 1].quantity = @ + change]
    IN  IF c1[index + 1].quantity <= 0
        THEN [c1 EXCEPT ![index + 1].quantity = 0]
        ELSE c1

\* The "maximum quantity" the API test suite names; the application does
\* not enforce it.
ApiMaxQuantity == 99

\* updateQuantity that enforces that maximum.
updateQuantityCapped(c, index, change) ==
    LET c1 == [c EXCEPT ![index + 1].quantity =
                   IF @ + change > ApiMaxQuantity THEN ApiMaxQuantity ELSE @ + change]
    IN  IF c1[index + 1].quantity <= 0 THEN Splice(c1, index) ELSE c1

\* The cart after the first five lines of updateQuantity(index, change),
\* for an index that designates a line item.
updateQuantity(c, index, change) ==
    LET c1 == [c EXCEPT ![index + 1].quantity = @ + change]
    IN  IF c1[index + 1].quantity <= 0 THEN Splice(c1, index) ELSE c1

\* removeItem with cart.splice(index + 1, 1).
removeItemNext(c, index) == Splice(c, index + 1)

\* The cart after the first line of removeItem(index).
removeItem(c, index) == Splice(c, index)

\* updateCartCount: the text written to .cart-count.
RECURSIVE SumQuantity(_)
SumQuantity(c) ==
    IF c = <<>> THEN 0 ELSE c[1].quantity + SumQuantity(Tail(c))

\* updateCartCount that counts the line items.
updateCartCountLines(c) == Len(c)

updateCartCount(c) == SumQuantity(c)

(***************************************************************************)
(* Pricing.                                                                *)
(***************************************************************************)
\* cart.reduce((sum, item) => sum + (item.price * item.quantity), 0)
RECURSIVE Subtotal(_, _)
Subtotal(c, n) ==
    IF n = 0 THEN FZero
    ELSE FAdd(Subtotal(c, n - 1), FMul(c[n].price, FFromInt(c[n].quantity)))

\* The literal 0.1 of "subtotal * 0.1".
TaxRate == FFromRatio(1, 10)

\* computeSummary that leaves the tax out of the total.
computeSummaryNoTax(c) ==
    LET subtotal == Subtotal(c, Len(c))
        tax      == FMul(subtotal, TaxRate)
    IN  [subtotal |-> subtotal, tax |-> tax, total |-> subtotal]

\* computeSummary that adds a flat handling fee to the total.
computeSummaryWithFee(c) ==
    LET subtotal == Subtotal(c, Len(c))
        tax      == FMul(subtotal, TaxRate)
        total    == FAdd(FAdd(subtotal, tax), FFromInt(5))
    IN  [subtotal |-> subtotal, tax |-> tax, total |-> total]

\* The three numbers updateCartSummary computes, before formatting.
computeSummary(c) ==
    LET subtotal == Subtotal(c, Len(c))
        tax      == FMul(subtotal, TaxRate)
        total    == FAdd(subtotal, tax)
    IN  [subtotal |-> subtotal, tax |-> tax, total |-> total]

\* x.toFixed(2): the amount in cents that the printed text shows
\* ("1299.99" is 129999).  toFixed rounds the exact value of the double.
Cents(x) == FRoundScaled(x, 100)

\* formatter.format(x) of the en-US currency formatter: the amount in cents
\* that the printed text shows ("$1,299.99" is 129999).  The formatter of
\* the browsers' Intl library rounds the shortest decimal that reads back
\* as x, halves away from zero: when that decimal is a whole number of
\* thousandths that ends in 5, the cent is rounded up even if the double is
\* below it; in every other case the decimal and the double are on the same
\* side of the half cent.
FormatCurrency(x) ==
    LET thousandths == FRoundScaled(x, 1000)
    IN  IF thousandths % 10 = 5 /\ FFromRatio(thousandths, 1000) = x
        THEN (thousandths + 5) \div 10
        ELSE FRoundScaled(x, 100)

\* The three texts updateCartSummary writes.
updateCartSummary(c) ==
    LET s == computeSummary(c)
    IN  [written  |-> TRUE,
         subtotal |-> FormatCurrency(s.subtotal),
         tax      |-> FormatCurrency(s.tax),
         total    |-> FormatCurrency(s.total)]

\* calculateTotal()
calculateTotal(c) ==
    LET subtotal == Subtotal(c, Len(c))
        tax      == FMul(subtotal, TaxRate)
    IN  FAdd(subtotal, tax)

\* The content renderCart writes to .cart-items.
RenderItems(c) ==
    IF c = <<>>
    THEN [emptyNotice |-> TRUE, items |-> <<>>]
    ELSE [emptyNotice |-> FALSE,
          items |-> [i \in 1..Len(c) |->
                       [sku       |-> c[i].sku,
                        name      |-> c[i].name,
                        each      |-> Cents(c[i].price),
                        quantity  |-> c[i].quantity,
                        lineTotal |-> Cents(FMul(c[i].price, FFromInt(c[i].quantity))),
                        index     |-> i - 1]]]

(***************************************************************************)
(* Persistence.  The JSON text is modelled as the sequence of its objects, *)
(* each the sequence of its <<key, value>> members in the order stringify  *)
(* emits them; a number is its decimal literal.                            *)
(***************************************************************************)
\* The literal JSON.stringify prints for a double: the shortest decimal that
\* reads back as the same double.  Amounts with at most two decimals print
\* as such; any other double is kept digit for digit.
NumberToJSON(x) ==
    LET c == FRoundScaled(x, 100)
    IN  IF FFromRatio(c, 100) = x THEN <<"dec", c, 100>> ELSE <<"bin", x>>

\* The parse of a number that stops at the decimal point.
NumberFromJSONWhole(t) ==
    IF t[1] = "dec" THEN FFromInt(t[2] \div t[3]) ELSE t[2]

\* JSON.parse of a number literal.
NumberFromJSON(t) ==
    IF t[1] = "dec" THEN FFromRatio(t[2], t[3]) ELSE t[2]

JSONStringify(c) ==
    [i \in 1..Len(c) |->
        << <<"sku", c[i].sku>>,
           <<"name", c[i].name>>,
           <<"price", NumberToJSON(c[i].price)>>,
           <<"quantity", c[i].quantity>> >>]

JSONMember(obj, key) ==
    obj[CHOOSE k \in 1..Len(obj) : obj[k][1] = key][2]

JSONParse(text) ==
    [i \in 1..Len(text) |->
        [sku      |-> JSONMember(text[i], "sku"),
         name     |-> JSONMember(text[i], "name"),
         price    |-> NumberFromJSON(JSONMember(text[i], "price")),
         quantity |-> JSONMember(text[i], "quantity")]]

\* localStorage without the key 'cart'.
NoItem == [has |-> FALSE, text |-> <<>>, closed |-> TRUE]

\* saveCart: the value of the key 'cart' afterwards.  closed says that the
\* text runs to its closing bracket; JSON.parse rejects a text that does
\* not.
saveCart(c) == [has |-> TRUE, text |-> JSONStringify(c), closed |-> TRUE]

\* What is left of a saved cart when its text is cut off before the end.
CutOff(saved) == [saved EXCEPT !.closed = FALSE]

(***************************************************************************)
(* Checkout validation.  Field values are sequences of one-character       *)
(* strings.                                                                *)
(***************************************************************************)
Whitespace == {" ", "\t"}

Digits == <<"0", "1", "2", "3", "4", "5", "6", "7", "8", "9">>

IsDigit(ch) == \E d \in 1..Len(Digits) : Digits[d] = ch

DigitValue(ch) == (CHOOSE d \in 1..Len(Digits) : Digits[d] = ch) - 1

\* value.replace(/\s/g, '')
StripWhitespace(s) == SelectSeq(s, LAMBDA ch : ch \notin Whitespace)

\* s.split('/'): the parts between the separators (one part if there is none).
RECURSIVE Split(_, _)
Split(s, sep) ==
    IF \E k \in 1..Len(s) : s[k] = sep
    THEN LET k == CHOOSE k \in 1..Len(s) :
                      s[k] = sep /\ \A j \in 1..(k - 1) : s[j] # sep
         IN  <<SubSeq(s, 1, k - 1)>> \o Split(SubSeq(s, k + 1, Len(s)), sep)
    ELSE <<s>>

\* String(undefined), which is what parseInt sees for a missing part.
Undefined == <<"u", "n", "d", "e", "f", "i", "n", "e", "d">>

\* const [month, year] = parts: a missing element is undefined.
Element(parts, k) == IF k <= Len(parts) THEN parts[k] ELSE Undefined

RECURSIVE DigitPrefixValue(_, _)
DigitPrefixValue(s, acc) ==
    IF s = <<>> \/ ~IsDigit(s[1]) THEN acc
    ELSE DigitPrefixValue(Tail(s), 10 * acc + DigitValue(s[1]))

RECURSIVE SkipWhitespace(_)
SkipWhitespace(s) ==
    IF s # <<>> /\ s[1] \in Whitespace THEN SkipWhitespace(Tail(s)) ELSE s

\* parseInt(s) for unsigned decimal text: the leading digits, NaN if there
\* is none.
parseInt(s) ==
    LET t == SkipWhitespace(s)
    IN  IF t = <<>> \/ ~IsDigit(t[1])
        THEN [nan |-> TRUE, n |-> 0]
        ELSE [nan |-> FALSE, n |-> DigitPrefixValue(t, 0)]

\* x < n and x === n for a parseInt result x: both are false of NaN.
NumLess(x, n) == ~x.nan /\ x.n < n

NumEqual(x, n) == ~x.nan /\ x.n = n

\* validateCard with the expiry check ahead of the length check.
validateCardExpiryFirst(card, expiry, clock) ==
    LET cardNumber   == StripWhitespace(card)
        parts        == Split(expiry, "/")
        month        == Element(parts, 1)
        year         == Element(parts, 2)
        currentYear  == clock.year % 100
        currentMonth == clock.month
    IN  IF NumLess(parseInt(year), currentYear)
             \/ (NumEqual(parseInt(year), currentYear)
                   /\ NumLess(parseInt(month), currentMonth))
        THEN "expired"
        ELSE IF Len(cardNumber) # 16 THEN "length"
        ELSE "ok"

\* validateCard that rejects a card in the month it expires.
validateCardMonthInclusive(card, expiry, clock) ==
    LET cardNumber   == StripWhitespace(card)
        parts        == Split(expiry, "/")
        month        == Element(parts, 1)
        year         == Element(parts, 2)
        currentYear  == clock.year % 100
        currentMonth == clock.month
    IN  IF Len(cardNumber) # 16 THEN "length"
        ELSE IF NumLess(parseInt(year), currentYear)
                  \/ (NumEqual(parseInt(year), currentYear)
                        /\ NumLess(parseInt(month), currentMonth + 1))
        THEN "expired"
        ELSE "ok"

\* validateCard that reads the two-digit year YY as the year 2000 + YY.
validateCardFullYear(card, expiry, clock) ==
    LET cardNumber   == StripWhitespace(card)
        parts        == Split(expiry, "/")
        month        == Element(parts, 1)
        year         == Element(parts, 2)
        currentMonth == clock.month
    IN  IF Len(cardNumber) # 16 THEN "length"
        ELSE IF (~parseInt(year).nan /\ 2000 + parseInt(year).n < clock.year)
                  \/ (~parseInt(year).nan /\ 2000 + parseInt(year).n = clock.year
                        /\ NumLess(parseInt(month), currentMonth))
        THEN "expired"
        ELSE "ok"

\* The two checks of handleCheckout: "length", "expired", or "ok".
validateCard(card, expiry, clock) ==
    LET cardNumber   == StripWhitespace(card)
        parts        == Split(expiry, "/")
        month        == Element(parts, 1)
        year         == Element(parts, 2)
        currentYear  == clock.year % 100
        currentMonth == clock.month
    IN  IF Len(cardNumber) # 16 THEN "length"
        ELSE IF NumLess(parseInt(year), currentYear)
                  \/ (NumEqual(parseInt(year), currentYear)
                        /\ NumLess(parseInt(month), currentMonth))
        THEN "expired"
        ELSE "ok"

(***************************************************************************)
(* Bounds of the model and the inputs it draws.                            *)
(***************************************************************************)
\* The shopper uses the first MaxSkus products of the catalog ...
MaxSkus == 2

\* ... and never holds more than MaxCount units in the cart.
MaxCount == 2

\* Pending error-clearing timers.
MaxErrorTimers == 1

\* Pending button-feedback timers.
MaxFeedbackTimers == 1

SkuInputs == {SkuOrder[i] : i \in 1..MinOf(MaxSkus, Len(SkuOrder))}

AlternatingDigits(n) == [i \in 1..n |-> IF i % 2 = 1 THEN "4" ELSE "2"]

\* "4242424242424242", "4242 4242 4242 4242" and "4242424242"
Card16 == AlternatingDigits(16)

CardSpaced ==
    [i \in 1..19 |-> IF i % 5 = 0 THEN " " ELSE AlternatingDigits(4)[i % 5]]

CardShort == AlternatingDigits(10)

\* The values typed into the checkout form.
FormInputs ==
    { [card |-> Card16,     expiry |-> <<"1", "2", "/", "2", "6">>, cvv |-> <<"1", "2", "3">>],
      [card |-> CardShort,  expiry |-> <<"1", "2", "/", "2", "6">>, cvv |-> <<"1", "2", "3">>],
      [card |-> CardSpaced, expiry |-> <<"0", "1", "/", "2", "0">>, cvv |-> <<"1", "2", "3">>] }

\* checkout-form.reset(): the fields are empty again.
EmptyForm == [card |-> <<>>, expiry |-> <<>>, cvv |-> <<>>]

\* The frozen clocks of a session: new Date() during the session.
Clocks == { [year |-> 2026, month |-> 11] }

\* The largest double below 1, (2^53 - 1) / 2^53.
LargestBelowOne ==
    [m |-> [i \in 1..5 |-> IF i = 5 THEN 1 ELSE Base - 1], e |-> 0 - MantissaBits]

\* The value Math.random() returns in the sessions of Spec.
RandomDraws == {LargestBelowOne}

\* The values Math.random() returns in the checkout sessions: 0, 2^-53,
\* 1/9, 1/2, 8/9 and the largest double below 1.
CheckoutDraws ==
    { FZero, FRound(<<1>>, 0 - MantissaBits), FFromRatio(1, 9),
      FFromRatio(1, 2), FFromRatio(8, 9), LargestBelowOne }

\* String(n) for a non-negative integer n: its decimal digits.
RECURSIVE NumberToString(_)
NumberToString(n) ==
    IF n < 10 THEN <<Digits[n + 1]>>
    ELSE NumberToString(n \div 10) \o <<Digits[(n % 10) + 1]>>

\* 'ORD-' + Math.floor(10000000 + r * 90000000) for each value r that
\* Math.random() returns in the model: the prefix, then one character for
\* each digit.
OrderNumbers ==
    [r \in RandomDraws \cup CheckoutDraws |->
        <<"ORD-">> \o
        NumberToString(FFloor(FAdd(FFromInt(10000000), FMul(r, FFromInt(90000000)))))]

\* The order number drawn from a range ten times wider than ten million
\* to a hundred million.
OrderNumberWide(r) ==
    <<"ORD-">> \o
    NumberToString(FFloor(FAdd(FFromInt(10000000), FMul(r, FFromInt(900000000)))))

\* The order number for the random draw r.
OrderNumber(r) == OrderNumbers[r]

(***************************************************************************)
(* The state.                                                              *)
(***************************************************************************)
VARIABLES
    cart,          \* let cart
    storage,       \* localStorage, key 'cart'
    display,       \* style.display of #products, #cart, #checkout, #success
    cartCount,     \* text of .cart-count
    cartItems,     \* content of .cart-items
    summary,       \* texts of cart-subtotal, cart-tax, cart-total
    checkoutTotal, \* text of checkout-total
    form,          \* values of #card-number, #expiry, #cvv
    cardError,     \* text of #card-error
    errorTimers,   \* pending timers of showError
    submitBtn,     \* submit-order: text and disabled
    orderTimers,   \* pending timers of handleCheckout
    orderNumber,   \* text of order-number
    addButtons,    \* the .add-to-cart buttons: text and pending timers
    now,           \* the clock new Date() reads
    uncaught       \* the exceptions that handlers have thrown

vars == <<cart, storage, display, cartCount, cartItems, summary, checkoutTotal,
          form, cardError, errorTimers, submitBtn, orderTimers, orderNumber,
          addButtons, now, uncaught>>

Sections == {"products", "cart", "checkout", "success"}

\* Shows one section and hides the other three (showProducts, the tail of
\* showCart and showCheckout, the order timer).
ShowOnly(section) ==
    [s \in Sections |-> IF s = section THEN "block" ELSE "none"]

Visible(section) == display[section] = "block"

\* What the page shows before any script has run.
InitialDisplay == ShowOnly("products")

InitialSubmitBtn == [text |-> "Complete Purchase", disabled |-> FALSE]

InitialAddButton == [text |-> "Add to Cart", timers |-> 0]

\* loadCart(): the cart and the count text after it, given the count text
\* before it.
loadCart(saved, countBefore) ==
    IF ~saved.has
    THEN [cart |-> <<>>, count |-> countBefore, threw |-> {}]
    ELSE IF ~saved.closed
    THEN [cart |-> <<>>, count |-> countBefore, threw |-> {"SyntaxError"}]
    ELSE [cart  |-> JSONParse(saved.text),
          count |-> updateCartCount(JSONParse(saved.text)),
          threw |-> {}]

\* The state once the DOMContentLoaded handler has run, when an earlier
\* session has left one of the values of prior under the key 'cart' and
\* the clock reads one of clocks.
InitFrom(prior, clocks) ==
    /\ storage \in prior
    /\ cart = loadCart(storage, 0).cart
    /\ cartCount = loadCart(storage, 0).count
    /\ display = InitialDisplay
    /\ cartItems = [emptyNotice |-> FALSE, items |-> <<>>]
    /\ summary = [written |-> FALSE, subtotal |-> 0, tax |-> 0, total |-> 0]
    /\ checkoutTotal = [written |-> FALSE, total |-> 0]
    /\ form = EmptyForm
    /\ cardError = ""
    /\ errorTimers = 0
    /\ submitBtn = InitialSubmitBtn
    /\ orderTimers = 0
    /\ orderNumber = <<>>
    /\ addButtons = [sku \in DOMAIN products |-> InitialAddButton]
    /\ now \in clocks
    /\ uncaught = loadCart(storage, 0).threw


(***************************************************************************)
(* The event handlers.  Only what is displayed can be clicked: the         *)
(* controls of a hidden section receive no events.                         *)
(***************************************************************************)
\* addToCart that appends a line item without looking at the catalog entry.
ClickAddToCartAnySku(sku) ==
    /\ Visible("products")
    /\ IF FindSku(cart, sku) = 0 /\ sku \notin DOMAIN products
       THEN /\ cart' = Append(cart, [sku |-> sku, name |-> "undefined",
                                     price |-> FZero, quantity |-> 1])
            /\ cartCount' = updateCartCount(cart')
            /\ storage' = saveCart(cart')
            /\ UNCHANGED <<addButtons, uncaught>>
       ELSE /\ cart' = addToCart(cart, sku)
            /\ cartCount' = updateCartCount(cart')
            /\ storage' = saveCart(cart')
            /\ addButtons' = [addButtons EXCEPT ![sku] =
                                 [text |-> "Added", timers |-> @.timers + 1]]
            /\ UNCHANGED uncaught
    /\ UNCHANGED <<display, cartItems, summary, checkoutTotal, form, cardError,
                   errorTimers, submitBtn, orderTimers, orderNumber, now>>

\* click on .add-to-cart: addToCart(sku).  For a sku that is neither in the
\* cart nor in the catalog, products[sku].name throws a TypeError before
\* anything is pushed.
ClickAddToCart(sku) ==
    /\ Visible("products")
    /\ IF FindSku(cart, sku) = 0 /\ sku \notin DOMAIN products
       THEN /\ uncaught' = uncaught \cup {"TypeError"}
            /\ UNCHANGED <<cart, cartCount, storage, addButtons>>
       ELSE /\ cart' = addToCart(cart, sku)
            /\ cartCount' = updateCartCount(cart')
            /\ storage' = saveCart(cart')
            /\ addButtons' = [addButtons EXCEPT ![sku] =
                                 [text |-> "Added", timers |-> @.timers + 1]]
            /\ UNCHANGED uncaught
    /\ UNCHANGED <<display, cartItems, summary, checkoutTotal, form, cardError,
                   errorTimers, submitBtn, orderTimers, orderNumber, now>>

\* The timer of addToCart fires.
FeedbackTimerFires(sku) ==
    /\ addButtons[sku].timers > 0
    /\ addButtons' = [addButtons EXCEPT ![sku] =
                         [text |-> "Add to Cart", timers |-> @.timers - 1]]
    /\ UNCHANGED <<cart, storage, display, cartCount, cartItems, summary,
                   checkoutTotal, form, cardError, errorTimers, submitBtn,
                   orderTimers, orderNumber, now, uncaught>>

\* renderCart that computes the summary once and keeps it afterwards.
renderCartKeepsSummary(c) ==
    /\ cartItems' = RenderItems(c)
    /\ summary' = IF c = <<>> \/ summary.written THEN summary
                  ELSE updateCartSummary(c)

\* renderCart(): the list, and the summary unless the cart is empty.
renderCart(c) ==
    /\ cartItems' = RenderItems(c)
    /\ summary' = IF c = <<>> THEN summary ELSE updateCartSummary(c)

\* showCart without the test for an empty cart.
showCartAlways ==
    /\ renderCart(cart)
    /\ display' = ShowOnly("cart")

\* showCart(): with an empty cart an alert and nothing else.
showCart ==
    IF cart = <<>>
    THEN UNCHANGED <<display, cartItems, summary>>
    ELSE /\ renderCart(cart)
         /\ display' = ShowOnly("cart")

\* click on .cart-icon (in the page header, shown with every section)
ClickCartIcon ==
    /\ showCart
    /\ UNCHANGED <<cart, storage, cartCount, checkoutTotal, form, cardError,
                   errorTimers, submitBtn, orderTimers, orderNumber, addButtons, now, uncaught>>

\* click on #back-to-cart
ClickBackToCart ==
    /\ Visible("checkout")
    /\ showCart
    /\ UNCHANGED <<cart, storage, cartCount, checkoutTotal, form, cardError,
                   errorTimers, submitBtn, orderTimers, orderNumber, addButtons, now, uncaught>>

\* click on #continue-shopping: showProducts()
ClickContinueShopping ==
    /\ Visible("cart")
    /\ display' = ShowOnly("products")
    /\ UNCHANGED <<cart, storage, cartCount, cartItems, summary, checkoutTotal,
                   form, cardError, errorTimers, submitBtn, orderTimers,
                   orderNumber, addButtons, now, uncaught>>

\* showCheckout that shows the checkout without hiding the cart.
ClickCheckoutBtnKeepsCart ==
    /\ Visible("cart")
    /\ checkoutTotal' = [written |-> TRUE, total |-> Cents(calculateTotal(cart))]
    /\ display' = [display EXCEPT !["checkout"] = "block"]
    /\ UNCHANGED <<cart, storage, cartCount, cartItems, summary, form, cardError,
                   errorTimers, submitBtn, orderTimers, orderNumber, addButtons,
                   now, uncaught>>

\* showCheckout that puts the submit button back to its initial state.
ClickCheckoutBtnEnables ==
    /\ Visible("cart")
    /\ checkoutTotal' = [written |-> TRUE, total |-> Cents(calculateTotal(cart))]
    /\ display' = ShowOnly("checkout")
    /\ submitBtn' = [text |-> "Complete Purchase", disabled |-> FALSE]
    /\ UNCHANGED <<cart, storage, cartCount, cartItems, summary, form, cardError,
                   errorTimers, orderTimers, orderNumber, addButtons, now, uncaught>>

\* click on #checkout-btn: showCheckout()
ClickCheckoutBtn ==
    /\ Visible("cart")
    /\ checkoutTotal' = [written |-> TRUE, total |-> Cents(calculateTotal(cart))]
    /\ display' = ShowOnly("checkout")
    /\ UNCHANGED <<cart, storage, cartCount, cartItems, summary, form, cardError,
                   errorTimers, submitBtn, orderTimers, orderNumber, addButtons, now, uncaught>>

\* updateQuantity without its call of renderCart.
ClickQuantityBtnNoRender(k, change) ==
    /\ Visible("cart")
    /\ k \in 1..Len(cartItems.items)
    /\ LET index == cartItems.items[k].index
       IN  IF index + 1 > Len(cart)
           THEN /\ uncaught' = uncaught \cup {"TypeError"}
                /\ UNCHANGED <<cart, cartCount, storage>>
           ELSE /\ cart' = updateQuantity(cart, index, change)
                /\ cartCount' = updateCartCount(cart')
                /\ storage' = saveCart(cart')
                /\ UNCHANGED uncaught
    /\ UNCHANGED <<display, cartItems, summary, checkoutTotal, form, cardError,
                   errorTimers, submitBtn, orderTimers, orderNumber, addButtons, now>>

\* click on a rendered - or + button: updateQuantity(index, change).  An
\* index that designates no line item makes the first statement throw.
ClickQuantityBtn(k, change) ==
    /\ Visible("cart")
    /\ k \in 1..Len(cartItems.items)
    /\ LET index == cartItems.items[k].index
       IN  IF index + 1 > Len(cart)
           THEN /\ uncaught' = uncaught \cup {"TypeError"}
                /\ UNCHANGED <<cart, cartCount, storage, cartItems, summary>>
           ELSE /\ cart' = updateQuantity(cart, index, change)
                /\ cartCount' = updateCartCount(cart')
                /\ storage' = saveCart(cart')
                /\ renderCart(cart')
                /\ UNCHANGED uncaught
    /\ UNCHANGED <<display, checkoutTotal, form, cardError, errorTimers,
                   submitBtn, orderTimers, orderNumber, addButtons, now>>

\* removeItem that re-renders the Cart view even when the cart is empty.
ClickRemoveBtnStay(k) ==
    /\ Visible("cart")
    /\ k \in 1..Len(cartItems.items)
    /\ cart' = removeItem(cart, cartItems.items[k].index)
    /\ cartCount' = updateCartCount(cart')
    /\ storage' = saveCart(cart')
    /\ renderCart(cart')
    /\ UNCHANGED <<display, checkoutTotal, form, cardError, errorTimers, submitBtn,
                   orderTimers, orderNumber, addButtons, now, uncaught>>

\* click on a rendered Remove button: removeItem(index)
ClickRemoveBtn(k) ==
    /\ Visible("cart")
    /\ k \in 1..Len(cartItems.items)
    /\ cart' = removeItem(cart, cartItems.items[k].index)
    /\ cartCount' = updateCartCount(cart')
    /\ storage' = saveCart(cart')
    /\ IF cart' = <<>>
       THEN /\ display' = ShowOnly("products")
            /\ UNCHANGED <<cartItems, summary>>
       ELSE /\ renderCart(cart')
            /\ UNCHANGED display
    /\ UNCHANGED <<checkoutTotal, form, cardError, errorTimers, submitBtn,
                   orderTimers, orderNumber, addButtons, now, uncaught>>

\* The shopper fills in the checkout form.
TypeForm(f) ==
    /\ Visible("checkout")
    /\ form # f
    /\ form' = f
    /\ UNCHANGED <<cart, storage, display, cartCount, cartItems, summary,
                   checkoutTotal, cardError, errorTimers, submitBtn,
                   orderTimers, orderNumber, addButtons, now, uncaught>>

\* showError('card-error', message)
showError(message) ==
    /\ cardError' = message
    /\ errorTimers' = errorTimers + 1

\* handleCheckout that leaves the submit button enabled while it processes.
SubmitCheckoutFormNoGuard ==
    /\ Visible("checkout")
    /\ ~submitBtn.disabled
    /\ LET verdict == validateCard(form.card, form.expiry, now)
       IN  CASE verdict = "length" ->
                  /\ showError("Card number must be 16 digits")
                  /\ UNCHANGED <<submitBtn, orderTimers>>
             [] verdict = "expired" ->
                  /\ showError("Card has expired")
                  /\ UNCHANGED <<submitBtn, orderTimers>>
             [] OTHER ->
                  /\ submitBtn' = [text |-> "Processing...", disabled |-> FALSE]
                  /\ orderTimers' = orderTimers + 1
                  /\ UNCHANGED <<cardError, errorTimers>>
    /\ UNCHANGED <<cart, storage, display, cartCount, cartItems, summary,
                   checkoutTotal, form, orderNumber, addButtons, now, uncaught>>

\* handleCheckout that resets the form when it rejects the submission.
SubmitCheckoutFormResets ==
    /\ Visible("checkout")
    /\ ~submitBtn.disabled
    /\ LET verdict == validateCard(form.card, form.expiry, now)
       IN  CASE verdict = "length" ->
                  /\ showError("Card number must be 16 digits")
                  /\ form' = EmptyForm
                  /\ UNCHANGED <<submitBtn, orderTimers>>
             [] verdict = "expired" ->
                  /\ showError("Card has expired")
                  /\ form' = EmptyForm
                  /\ UNCHANGED <<submitBtn, orderTimers>>
             [] OTHER ->
                  /\ submitBtn' = [text |-> "Processing...", disabled |-> TRUE]
                  /\ orderTimers' = orderTimers + 1
                  /\ UNCHANGED <<cardError, errorTimers, form>>
    /\ UNCHANGED <<cart, storage, display, cartCount, cartItems, summary,
                   checkoutTotal, orderNumber, addButtons, now, uncaught>>

\* submit of #checkout-form: handleCheckout(e).  A disabled submit button
\* submits nothing.
SubmitCheckoutForm ==
    /\ Visible("checkout")
    /\ ~submitBtn.disabled
    /\ LET verdict == validateCard(form.card, form.expiry, now)
       IN  CASE verdict = "length" ->
                  /\ showError("Card number must be 16 digits")
                  /\ UNCHANGED <<submitBtn, orderTimers>>
             [] verdict = "expired" ->
                  /\ showError("Card has expired")
                  /\ UNCHANGED <<submitBtn, orderTimers>>
             [] OTHER ->
                  /\ submitBtn' = [text |-> "Processing...", disabled |-> TRUE]
                  /\ orderTimers' = orderTimers + 1
                  /\ UNCHANGED <<cardError, errorTimers>>
    /\ UNCHANGED <<cart, storage, display, cartCount, cartItems, summary,
                   checkoutTotal, form, orderNumber, addButtons, now, uncaught>>

\* The timer of showError fires and leaves the message in place.
ErrorTimerFiresKeepsText ==
    /\ errorTimers > 0
    /\ errorTimers' = errorTimers - 1
    /\ UNCHANGED <<cart, storage, display, cartCount, cartItems, summary,
                   checkoutTotal, form, cardError, submitBtn, orderTimers,
                   orderNumber, addButtons, now, uncaught>>

\* The timer of showError fires.
ErrorTimerFires ==
    /\ errorTimers > 0
    /\ cardError' = ""
    /\ errorTimers' = errorTimers - 1
    /\ UNCHANGED <<cart, storage, display, cartCount, cartItems, summary,
                   checkoutTotal, form, submitBtn, orderTimers, orderNumber,
                   addButtons, now, uncaught>>

\* The order timer that completes the order only while the Checkout view
\* is shown.
OrderTimerFiresInCheckout(r) ==
    /\ orderTimers > 0
    /\ Visible("checkout")
    /\ orderNumber' = OrderNumber(r)
    /\ cart' = <<>>
    /\ cartCount' = updateCartCount(cart')
    /\ storage' = saveCart(cart')
    /\ display' = ShowOnly("success")
    /\ form' = EmptyForm
    /\ submitBtn' = [text |-> "Complete Purchase", disabled |-> FALSE]
    /\ orderTimers' = orderTimers - 1
    /\ UNCHANGED <<cartItems, summary, checkoutTotal, cardError, errorTimers,
                   addButtons, now, uncaught>>

\* The order timer without the reset of the form.
OrderTimerFiresKeepsForm(r) ==
    /\ orderTimers > 0
    /\ orderNumber' = OrderNumber(r)
    /\ cart' = <<>>
    /\ cartCount' = updateCartCount(cart')
    /\ storage' = saveCart(cart')
    /\ display' = ShowOnly("success")
    /\ submitBtn' = [text |-> "Complete Purchase", disabled |-> FALSE]
    /\ orderTimers' = orderTimers - 1
    /\ UNCHANGED <<cartItems, summary, checkoutTotal, cardError, errorTimers,
                   addButtons, now, form, uncaught>>

\* The order timer without its call of saveCart.
OrderTimerFiresNoSave(r) ==
    /\ orderTimers > 0
    /\ orderNumber' = OrderNumber(r)
    /\ cart' = <<>>
    /\ cartCount' = updateCartCount(cart')
    /\ display' = ShowOnly("success")
    /\ form' = EmptyForm
    /\ submitBtn' = [text |-> "Complete Purchase", disabled |-> FALSE]
    /\ orderTimers' = orderTimers - 1
    /\ UNCHANGED <<storage, cartItems, summary, checkoutTotal, cardError,
                   errorTimers, addButtons, now, uncaught>>

\* The order timer without "cart = []".
OrderTimerFiresKeepsCart(r) ==
    /\ orderTimers > 0
    /\ orderNumber' = OrderNumber(r)
    /\ cartCount' = updateCartCount(cart)
    /\ storage' = saveCart(cart)
    /\ display' = ShowOnly("success")
    /\ form' = EmptyForm
    /\ submitBtn' = [text |-> "Complete Purchase", disabled |-> FALSE]
    /\ orderTimers' = orderTimers - 1
    /\ UNCHANGED <<cart, cartItems, summary, checkoutTotal, cardError,
                   errorTimers, addButtons, now, uncaught>>

\* The timer of handleCheckout fires; r is the value of Math.random().
OrderTimerFires(r) ==
    /\ orderTimers > 0
    /\ orderNumber' = OrderNumber(r)
    /\ cart' = <<>>
    /\ cartCount' = updateCartCount(cart')
    /\ storage' = saveCart(cart')
    /\ display' = ShowOnly("success")
    /\ form' = EmptyForm
    /\ submitBtn' = [text |-> "Complete Purchase", disabled |-> FALSE]
    /\ orderTimers' = orderTimers - 1
    /\ UNCHANGED <<cartItems, summary, checkoutTotal, cardError, errorTimers,
                   addButtons, now, uncaught>>

\* The new-order handler that goes to the Cart view.
ClickNewOrderShowsCart ==
    /\ Visible("success")
    /\ cart' = <<>>
    /\ cartCount' = updateCartCount(cart')
    /\ display' = ShowOnly("cart")
    /\ UNCHANGED <<storage, cartItems, summary, checkoutTotal, form, cardError,
                   errorTimers, submitBtn, orderTimers, orderNumber, addButtons,
                   now, uncaught>>

\* click on #new-order
ClickNewOrder ==
    /\ Visible("success")
    /\ cart' = <<>>
    /\ cartCount' = updateCartCount(cart')
    /\ display' = ShowOnly("products")
    /\ UNCHANGED <<storage, cartItems, summary, checkoutTotal, form, cardError,
                   errorTimers, submitBtn, orderTimers, orderNumber, addButtons, now, uncaught>>

(***************************************************************************)
(* The session of a shopper who uses the first MaxSkus products and keeps  *)
(* at most MaxCount units in the cart.                                     *)
(***************************************************************************)
RECURSIVE PendingFeedback(_)
PendingFeedback(n) ==
    IF n = 0 THEN 0 ELSE addButtons[SkuOrder[n]].timers + PendingFeedback(n - 1)

\* What an earlier session may have left under the key 'cart'.
PriorStorage ==
    { NoItem,
      saveCart(<<>>),
      saveCart(addToCart(<<>>, SkuOrder[1])) }

Init == InitFrom(PriorStorage, Clocks)

Next ==
    \/ \E sku \in SkuInputs :
          /\ SumQuantity(cart) < MaxCount
          /\ PendingFeedback(Len(SkuOrder)) < MaxFeedbackTimers
          /\ ClickAddToCart(sku)
    \/ \E sku \in SkuInputs : FeedbackTimerFires(sku)
    \/ ClickCartIcon
    \/ ClickBackToCart
    \/ ClickContinueShopping
    \/ ClickCheckoutBtn
    \/ \E k \in 1..Len(SkuOrder), change \in {-1, 1} :
          /\ SumQuantity(cart) + change <= MaxCount
          /\ ClickQuantityBtn(k, change)
    \/ \E k \in 1..Len(SkuOrder) : ClickRemoveBtn(k)
    \/ \E f \in FormInputs : TypeForm(f)
    \/ /\ validateCard(form.card, form.expiry, now) # "ok" => errorTimers < MaxErrorTimers
       /\ SubmitCheckoutForm
    \/ ErrorTimerFires
    \/ \E r \in RandomDraws : OrderTimerFires(r)
    \/ ClickNewOrder

Spec == Init /\ [][Next]_vars

\* A timer set with setTimeout fires once its delay has passed: the
\* callbacks of showError and handleCheckout are not postponed for ever.
TimersFire ==
    /\ WF_vars(ErrorTimerFires)
    /\ WF_vars(\E r \in RandomDraws : OrderTimerFires(r))

FairSpec == Spec /\ TimersFire

(***************************************************************************)
(* Sessions that start from a cart an earlier session saved.  CartsUpTo(n) *)
(* is every cart n or fewer clicks on Add to Cart build from the empty     *)
(* cart, over the whole catalog.                                           *)
(***************************************************************************)
RECURSIVE CartsUpTo(_)
CartsUpTo(n) ==
    IF n = 0 THEN {<<>>}
    ELSE LET prev == CartsUpTo(n - 1)
         IN  prev \cup {addToCart(c, sku) : c \in prev, sku \in DOMAIN products}

\* Units in the carts of the cart-editing sessions.
MaxOpsUnits == 4

\* The saved carts: three or more line items, one unit each.
OpsCarts ==
    {c \in CartsUpTo(MaxOpsUnits) :
        Len(c) >= 3 /\ \A i \in 1..Len(c) : c[i].quantity = 1}

\* The shopper opens the saved cart and edits it with the -, + and Remove
\* buttons.
InitOps == InitFrom({saveCart(c) : c \in OpsCarts}, Clocks)

NextOps ==
    \/ ClickCartIcon
    \/ \E k \in 1..Len(SkuOrder), change \in {-1, 1} :
          /\ SumQuantity(cart) + change <= MaxOpsUnits
          /\ ClickQuantityBtn(k, change)
    \/ \E k \in 1..Len(SkuOrder) : ClickRemoveBtn(k)

SpecOps == InitOps /\ [][NextOps]_vars

\* Units in the carts of the pricing sessions.
MaxPricedUnits == 5

PricedCarts == CartsUpTo(MaxPricedUnits)

\* The shopper opens the saved cart, which computes and shows its summary,
\* and goes on to the checkout, which shows its total.
InitPricing == InitFrom({saveCart(c) : c \in PricedCarts}, Clocks)

NextPricing ==
    \/ ClickCartIcon
    \/ ClickCheckoutBtn
    \/ ClickBackToCart

SpecPricing == InitPricing /\ [][NextPricing]_vars

(***************************************************************************)
(* Sessions over page loads: the shopper fills and empties the cart and    *)
(* reloads the page, which starts the script again over the same           *)
(* localStorage.  The first page load may find the key 'cart' absent, or   *)
(* holding a saved cart, or holding a text that was cut off.  One button   *)
(* carries a sku that the catalog does not have.                           *)
(***************************************************************************)
\* Units in the carts of these sessions.
MaxSessionUnits == 3

UnknownSku == "INVALID-SKU-12345"

SessionSkus == SkuInputs \cup {UnknownSku}

SessionStorage ==
    { NoItem,
      saveCart(<<>>),
      saveCart(addToCart(<<>>, SkuOrder[1])),
      CutOff(saveCart(addToCart(<<>>, SkuOrder[1]))) }

\* The page is loaded again: the DOMContentLoaded handler runs in a fresh
\* document; localStorage is what it was.
Reload ==
    /\ cart' = loadCart(storage, 0).cart
    /\ cartCount' = loadCart(storage, 0).count
    /\ uncaught' = loadCart(storage, 0).threw
    /\ display' = InitialDisplay
    /\ cartItems' = [emptyNotice |-> FALSE, items |-> <<>>]
    /\ summary' = [written |-> FALSE, subtotal |-> 0, tax |-> 0, total |-> 0]
    /\ checkoutTotal' = [written |-> FALSE, total |-> 0]
    /\ form' = EmptyForm
    /\ cardError' = ""
    /\ errorTimers' = 0
    /\ submitBtn' = InitialSubmitBtn
    /\ orderTimers' = 0
    /\ orderNumber' = <<>>
    /\ addButtons' = [sku \in DOMAIN products |-> InitialAddButton]
    /\ UNCHANGED <<storage, now>>

InitSession == InitFrom(SessionStorage, Clocks)

NextSession ==
    \/ \E sku \in SessionSkus :
          /\ SumQuantity(cart) < MaxSessionUnits
          /\ PendingFeedback(Len(SkuOrder)) < MaxFeedbackTimers
          /\ ClickAddToCart(sku)
    \/ \E sku \in SkuInputs : FeedbackTimerFires(sku)
    \/ ClickCartIcon
    \/ ClickContinueShopping
    \/ \E k \in 1..Len(SkuOrder), change \in {-1, 1} :
          /\ SumQuantity(cart) + change <= MaxSessionUnits
          /\ ClickQuantityBtn(k, change)
    \/ \E k \in 1..Len(SkuOrder) : ClickRemoveBtn(k)
    \/ Reload

SpecSession == InitSession /\ [][NextSession]_vars

(***************************************************************************)
(* Checkout sessions: the shopper returns to a saved cart, goes to the     *)
(* checkout and submits the form with a range of card numbers and expiry   *)
(* dates, at several dates of the clock.                                   *)
(***************************************************************************)
\* The text of a two-digit number, and of an expiry date MM/YY.
TwoDigitText(n) == <<Digits[(n \div 10) + 1], Digits[(n % 10) + 1]>>

ExpiryText(mm, yy) == TwoDigitText(mm) \o <<"/">> \o TwoDigitText(yy)

\* new Date() in November 2026, December 2099 and January 2100.
CheckoutClocks ==
    { [year |-> 2026, month |-> 11],
      [year |-> 2099, month |-> 12],
      [year |-> 2100, month |-> 1] }

\* Card numbers of 16, 16 (with spaces), 10, 17 and 0 characters.
CheckoutCards == {Card16, CardSpaced, CardShort, AlternatingDigits(17), <<>>}

\* Expiry values that are not of the form MM/YY: "", "1226" and "ab/cd".
MalformedExpiries ==
    { <<>>, <<"1", "2", "2", "6">>, <<"a", "b", "/", "c", "d">> }

\* Expiry dates around the three clocks, and the malformed values.
CheckoutExpiries ==
    { ExpiryText(e[1], e[2]) :
        e \in { <<12, 26>>, <<11, 26>>, <<10, 26>>, <<12, 25>>, <<1, 27>>,
                <<12, 99>>, <<11, 99>>, <<1, 0>>, <<12, 98>> } }
    \cup MalformedExpiries

CheckoutForms ==
    { [card |-> c, expiry |-> e, cvv |-> <<"1", "2", "3">>] :
        c \in CheckoutCards, e \in CheckoutExpiries }

InitCheckout ==
    InitFrom({saveCart(addToCart(<<>>, SkuOrder[1]))}, CheckoutClocks)

NextCheckout ==
    \/ ClickCartIcon
    \/ ClickCheckoutBtn
    \/ \E f \in CheckoutForms : TypeForm(f)
    \/ /\ validateCard(form.card, form.expiry, now) # "ok" => errorTimers < MaxErrorTimers
       /\ SubmitCheckoutForm
    \/ ErrorTimerFires
    \/ \E r \in CheckoutDraws : OrderTimerFires(r)

SpecCheckout == InitCheckout /\ [][NextCheckout]_vars

(***************************************************************************)
(* Sessions of rejected submissions: the shopper submits the form again    *)
(* while the message of an earlier rejection is still shown, so that up to *)
(* MaxPendingErrors timers of showError are pending.  The timers have the  *)
(* same delay and fire in the order in which they were started: of several *)
(* pending timers the one that fires is the oldest.                        *)
(***************************************************************************)
MaxPendingErrors == 2

InitErrors ==
    InitFrom({ saveCart(addToCart(<<>>, SkuOrder[1])),
               saveCart(addToCart(addToCart(<<>>, SkuOrder[1]), SkuOrder[2])) },
             Clocks)

NextErrors ==
    \/ ClickCartIcon
    \/ ClickContinueShopping
    \/ ClickCheckoutBtn
    \/ ClickBackToCart
    \/ \E f \in FormInputs : TypeForm(f)
    \/ /\ validateCard(form.card, form.expiry, now) # "ok" => errorTimers < MaxPendingErrors
       /\ SubmitCheckoutForm
    \/ ErrorTimerFires
    \/ \E r \in RandomDraws : OrderTimerFires(r)

SpecErrors == InitErrors /\ [][NextErrors]_vars

(***************************************************************************)
(* Properties.                                                             *)
(***************************************************************************)
\* What the key 'cart' decodes to; an absent key is the empty cart.
Decoded == IF storage.has THEN JSONParse(storage.text) ELSE <<>>

\* C1: after every handler and timer callback, the value stored under
\* 'cart' decodes to exactly the in-memory cart (same line items, same
\* order, same quantities); this includes the new-order handler, which
\* does not call saveCart.
C1_PersistedIsCart == Decoded = cart

\* C1 witness: the new-order handler has just run after an order.
C1_AfterNewOrder ==
    /\ Visible("products")
    /\ orderNumber # <<>>
    /\ cart = <<>>
    /\ storage = [has |-> TRUE, text |-> <<>>, closed |-> TRUE]

\* C2: every line item in the cart has quantity >= 1.
C2_QuantityAtLeastOne == \A i \in 1..Len(cart) : cart[i].quantity >= 1

\* C2 witness: a - click took the last unit of the last line item, which
\* left the Cart view showing an empty cart.
C2_DecrementRemovedLine ==
    /\ Visible("cart")
    /\ cartItems.emptyNotice
    /\ cart = <<>>
    /\ storage = [has |-> TRUE, text |-> <<>>, closed |-> TRUE]

\* C3: no two line items share a sku.
C3_OneLinePerSku ==
    \A i, j \in 1..Len(cart) : cart[i].sku = cart[j].sku => i = j

\* C3 witness: a product was added while it was in the cart, and the cart
\* still has one line item for it.
C3_AddedTwice ==
    /\ Len(cart) = 1
    /\ cart[1].sku = SkuOrder[1]
    /\ cart[1].quantity = 2
    /\ addButtons[SkuOrder[1]].text = "Added"
    /\ Decoded = cart

\* n calls of addToCart(p)
RECURSIVE AddN(_, _, _)
AddN(c, p, n) == IF n = 0 THEN c ELSE addToCart(AddN(c, p, n - 1), p)

\* Calls of addToCart in a row that C4 is checked for.
MaxAdds == 3

\* C4: for every catalog product p and n >= 1, n calls of addToCart(p)
\* from a cart without p leave exactly one line item for p, of quantity n.
C4_AddsCountUp ==
    \A p \in DOMAIN products, n \in 1..MaxAdds :
        FindSku(cart, p) = 0 =>
            LET r == AddN(cart, p, n)
            IN  /\ Cardinality({i \in 1..Len(r) : r[i].sku = p}) = 1
                /\ r[FindSku(r, p)].quantity = n
                /\ Len(r) = Len(cart) + 1

\* C4 witness: the shopper has clicked Add to Cart on one product
\* MaxCount times, from a cart without it.
C4_AddedRepeatedly ==
    /\ storage = saveCart(AddN(<<>>, SkuOrder[2], MaxCount))
    /\ cart = AddN(<<>>, SkuOrder[2], MaxCount)
    /\ cartCount = MaxCount
    /\ addButtons[SkuOrder[2]].text = "Added"

\* The sequence c without its position i.
Without(c, i) == SubSeq(c, 1, i - 1) \o SubSeq(c, i + 1, Len(c))

\* Changes of quantity C5 is checked for: -MaxDelta .. MaxDelta.
MaxDelta == 3

\* C5: for a valid index i with quantity c, updateQuantity(i, d) with
\* c + d <= 0 removes that line item (length - 1, the others unchanged and
\* in order); with d > 0 it sets the quantity to c + d, whatever c is (the
\* quantity of the cart, or ApiMaxQuantity), and changes nothing else.
C5_UpdateQuantity ==
    \A i \in 1..Len(cart), d \in (0 - MaxDelta)..MaxDelta :
      \A c \in {cart[i].quantity, ApiMaxQuantity} :
        LET before == [cart EXCEPT ![i].quantity = c]
            after  == updateQuantity(before, i - 1, d)
        IN  /\ c + d <= 0 =>
                 /\ Len(after) = Len(before) - 1
                 /\ after = Without(before, i)
            /\ d > 0 =>
                 /\ Len(after) = Len(before)
                 /\ after[i].quantity = c + d
                 /\ \A j \in 1..Len(before) :
                        j # i => after[j] = before[j]
                 /\ [after EXCEPT ![i].quantity = c] = before

\* C5 witness: of a saved cart of three line items of one unit, one is
\* gone and + has raised the quantity of another to 3.
C5_ButtonsUsed ==
    /\ Visible("cart")
    /\ Len(cart) = 2
    /\ cart[1].sku = SkuOrder[1] /\ cart[1].quantity = 1
    /\ cart[2].sku = SkuOrder[3] /\ cart[2].quantity = 3
    /\ cartItems = RenderItems(cart)
    /\ storage = saveCart(cart)

\* C6: removeItem(i) for a valid index removes exactly the line item at
\* position i whatever its quantity: length - 1, and every other line item
\* keeps its fields and its relative order.
C6_RemoveItem ==
    \A i \in 1..Len(cart) :
        LET after == removeItem(cart, i - 1)
        IN  /\ Len(after) = Len(cart) - 1
            /\ \A j \in 1..Len(after) :
                   after[j] = IF j < i THEN cart[j] ELSE cart[j + 1]

\* C6 witness: the middle line item of a saved cart of three is gone, the
\* other two are as they were and the Cart view shows them.
C6_RemovedMiddle ==
    /\ Visible("cart")
    /\ Len(cart) = 2
    /\ cart[1].sku = SkuOrder[4] /\ cart[1].quantity = 1
    /\ cart[2].sku = SkuOrder[1] /\ cart[2].quantity = 1
    /\ cartItems = RenderItems(cart)
    /\ cartCount = 2
    /\ summary = updateCartSummary(cart)

\* C7: after removeItem has run in the Cart view, the Catalog is the
\* visible view iff the cart became empty; otherwise the Cart view stays,
\* re-rendered; in the empty case the persisted cart is the empty sequence.
C7_RemoveNavigates ==
    [][(\E k \in 1..Len(SkuOrder) : ClickRemoveBtn(k)) =>
          /\ (display' = ShowOnly("products")) <=> (cart' = <<>>)
          /\ cart' # <<>> =>
                /\ display' = ShowOnly("cart")
                /\ cartItems' = RenderItems(cart')
                /\ summary' = updateCartSummary(cart')
          /\ cart' = <<>> => storage' = [has |-> TRUE, text |-> <<>>, closed |-> TRUE]]_vars

\* C7 witness: Remove emptied the cart: the Catalog shows, the list of the
\* hidden Cart view still holds the removed line item.
C7_RemovedLast ==
    /\ Visible("products")
    /\ cart = <<>>
    /\ storage = [has |-> TRUE, text |-> <<>>, closed |-> TRUE]
    /\ Len(cartItems.items) = 1
    /\ orderNumber = <<>>
    /\ cartCount = 0

\* The exact amount of a cart in cents, from the price literals.
RECURSIVE ExactCents(_)
ExactCents(c) ==
    IF c = <<>> THEN 0
    ELSE PriceLiteral[c[1].sku] * c[1].quantity + ExactCents(Tail(c))

\* n / d rounded to the nearest integer, halves up.
RoundHalfUp(n, d) == (2 * n + d) \div (2 * d)

\* C8: the pricing computation yields subtotal = sum of unit price x
\* quantity, tax = 10% of the subtotal and total = subtotal + tax, read in
\* fixed point at a tenth of a cent (finer than cents, before the display
\* rounding); an empty cart yields 0 for all three.
C8_SummaryAmounts ==
    LET s == computeSummary(cart)
        S == ExactCents(cart)
    IN  /\ FRoundScaled(s.subtotal, 1000) = 10 * S
        /\ FRoundScaled(s.tax, 1000) = S
        /\ FRoundScaled(s.total, 1000) = 11 * S
        /\ cart = <<>> => s.subtotal = FZero /\ s.tax = FZero /\ s.total = FZero
        /\ Visible("cart") => summary.subtotal = S

\* C8 witness: the Cart view shows the summary of a cart of several line
\* items whose tax is not a whole number of cents.
C8_SummaryShown ==
    /\ Visible("cart")
    /\ Len(cart) = 3
    /\ ExactCents(cart) % 10 # 0
    /\ summary.written
    /\ summary.subtotal = ExactCents(cart)

\* C9: for every cart of catalog products the displayed tax is 10% of the
\* subtotal rounded to the nearest cent, the displayed total is subtotal +
\* unrounded tax rounded to the nearest cent, and displayed total =
\* displayed subtotal + displayed tax (1299.99 gives 1299.99, 130.00,
\* 1429.99).
C9_DisplayedAmounts ==
    (Visible("cart") /\ cart # <<>>) =>
        LET S == ExactCents(cart)
        IN  /\ summary.subtotal = S
            /\ summary.tax = RoundHalfUp(S, 10)
            /\ summary.total = RoundHalfUp(11 * S, 10)
            /\ summary.total = summary.subtotal + summary.tax

\* The cart with every quantity doubled.
Doubled(c) == [i \in 1..Len(c) |-> [c[i] EXCEPT !.quantity = 2 * @]]

\* Twice a double: exact in binary floating point.
Twice(x) == IF x.m = <<>> THEN x ELSE [x EXCEPT !.e = @ + 1]

Distance(a, b) == IF a >= b THEN a - b ELSE b - a

\* C10: doubling every quantity exactly doubles subtotal, tax and total,
\* and the displayed amounts of the doubled cart are within 0.01 of twice
\* the displayed amounts.
C10_Linear ==
    LET s == computeSummary(cart)
        t == computeSummary(Doubled(cart))
    IN  /\ t.subtotal = Twice(s.subtotal)
        /\ t.tax = Twice(s.tax)
        /\ t.total = Twice(s.total)
        /\ Distance(FormatCurrency(t.subtotal), 2 * FormatCurrency(s.subtotal)) <= 1
        /\ Distance(FormatCurrency(t.tax), 2 * FormatCurrency(s.tax)) <= 1
        /\ Distance(FormatCurrency(t.total), 2 * FormatCurrency(s.total)) <= 1
        /\ ExactCents(Doubled(cart)) = 2 * ExactCents(cart)
        /\ FRoundScaled(t.total, 1000) = 2 * FRoundScaled(s.total, 1000)

\* C10 witness: the Cart view shows a summary whose tax, doubled, is a cent
\* off the displayed tax of the doubled cart.
C10_RoundingShows ==
    /\ Visible("cart")
    /\ cart # <<>>
    /\ summary = updateCartSummary(cart)
    /\ updateCartSummary(Doubled(cart)).tax # 2 * summary.tax

Rejected == errorTimers' = errorTimers + 1

Accepted == orderTimers' = orderTimers + 1

LengthMessage == "Card number must be 16 digits"

ExpiredMessage == "Card has expired"

\* The characters of a card number that are not whitespace.
NonWhitespaceCount(card) ==
    Cardinality({i \in 1..Len(card) : card[i] # " " /\ card[i] # "\t"})

\* An expiry of the form MM/YY, its month and its year.
NumericExpiry(e) ==
    /\ Len(e) = 5
    /\ e[3] = "/"
    /\ \A i \in {1, 2, 4, 5} : IsDigit(e[i])

ExpiryMonth(e) == 10 * DigitValue(e[1]) + DigitValue(e[2])

ExpiryYear(e) == 10 * DigitValue(e[4]) + DigitValue(e[5])

\* C12: a submission is rejected with 'Card number must be 16 digits' if
\* and only if the card number without its whitespace does not have
\* exactly 16 characters; the length check comes first, so a submission
\* that fails both checks gets this message, and a 16-character number
\* with spaces in it passes the length check.
C12_CardLength ==
    [][(Rejected \/ Accepted) =>
          ((Rejected /\ cardError' = LengthMessage)
              <=> NonWhitespaceCount(form.card) # 16)]_vars

\* C12 witness: a 10-digit card number with an expiry in the past was
\* rejected with the length message.
C12_ShortAndExpired ==
    /\ cardError = LengthMessage
    /\ errorTimers > 0
    /\ Len(form.card) = 10
    /\ form.expiry = ExpiryText(12, 25)
    /\ now.year = 2026
    /\ orderTimers = 0

\* C13: with a 16-character card number and a numeric expiry MM/YY, the
\* submission is rejected with 'Card has expired' if and only if YY <
\* currentYear, or YY = currentYear and MM < currentMonth; the current
\* month and year, and every later expiry, are accepted.
C13_Expiry ==
    [][((Rejected \/ Accepted)
          /\ NonWhitespaceCount(form.card) = 16
          /\ NumericExpiry(form.expiry)) =>
          LET MM      == ExpiryMonth(form.expiry)
              YY      == ExpiryYear(form.expiry)
              expired == \/ YY < now.year % 100
                         \/ (YY = now.year % 100 /\ MM < now.month)
          IN  /\ (Rejected /\ cardError' = ExpiredMessage) <=> expired
              /\ Accepted <=> ~expired]_vars

\* C13 witness: a card that expires in the current month was accepted.
C13_CurrentMonthAccepted ==
    /\ orderTimers = 1
    /\ submitBtn.disabled
    /\ Visible("checkout")
    /\ form.card = Card16
    /\ form.expiry = ExpiryText(now.month, now.year % 100)
    /\ cardError = ""

\* C14: the year test compares the two-digit year of the card with the
\* current year modulo 100: a 16-character card with YY < Y mod 100 is
\* rejected as expired and one with YY > Y mod 100 is accepted, whatever
\* the century (in 2099 a card 00 is rejected, in 2100 a card 99 is
\* accepted).
C14_TwoDigitYear ==
    [][((Rejected \/ Accepted)
          /\ NonWhitespaceCount(form.card) = 16
          /\ NumericExpiry(form.expiry)) =>
          /\ ExpiryYear(form.expiry) < now.year % 100
                => (Rejected /\ cardError' = ExpiredMessage)
          /\ ExpiryYear(form.expiry) > now.year % 100 => Accepted
          /\ (now.year = 2099 /\ ExpiryYear(form.expiry) = 0) => Rejected
          /\ (now.year = 2100 /\ ExpiryYear(form.expiry) = 99) => Accepted]_vars

\* C14 witness: in January 2100 a card that expired in 12/99 was accepted.
C14_CenturyAccepted ==
    /\ now.year = 2100
    /\ form.expiry = ExpiryText(12, 99)
    /\ NonWhitespaceCount(form.card) = 16
    /\ orderTimers = 1
    /\ submitBtn.disabled

\* C15: a rejected submission changes nothing but the error message: the
\* view stays Checkout, the form keeps its values, the cart, the persisted
\* cart and the count are unchanged, the submit button stays enabled, no
\* order timer is started and no order is created; only a submission that
\* passed both checks starts an order.
C15_RejectionFrame ==
    /\ [][Rejected =>
             /\ UNCHANGED <<display, form, cart, storage, cartCount, submitBtn,
                            orderTimers, orderNumber, cartItems, summary,
                            checkoutTotal, addButtons, now, uncaught>>
             /\ Visible("checkout")
             /\ ~submitBtn.disabled
             /\ cardError' \in {LengthMessage, ExpiredMessage}]_vars
    /\ [][Accepted =>
             /\ NonWhitespaceCount(form.card) = 16
             /\ ~(/\ NumericExpiry(form.expiry)
                  /\ \/ ExpiryYear(form.expiry) < now.year % 100
                     \/ /\ ExpiryYear(form.expiry) = now.year % 100
                        /\ ExpiryMonth(form.expiry) < now.month)]_vars
    /\ [][orderNumber' # orderNumber => orderTimers > 0]_vars

\* C15 witness: an expired card was rejected; the Checkout view still
\* shows the filled form and no order is under way.
C15_RejectedInPlace ==
    /\ cardError = ExpiredMessage
    /\ errorTimers = 1
    /\ Visible("checkout")
    /\ form.card = CardSpaced
    /\ form.expiry = ExpiryText(10, 26)
    /\ ~submitBtn.disabled
    /\ orderTimers = 0
    /\ orderNumber = <<>>
    /\ cart # <<>>

\* C16: errors are transient: with timers that fire, a displayed error
\* message is eventually cleared, and once no further submission is
\* rejected the error text is eventually empty for good.
C16_ErrorsTransient ==
    /\ (cardError # "") ~> (cardError = "")
    /\ (<>[][~Rejected]_vars) => <>[](cardError = "")

\* C16 witness: a rejected submission shows its message and the timer
\* that will clear it is pending.
C16_ErrorShown ==
    /\ cardError = LengthMessage
    /\ errorTimers = 1
    /\ form.card = CardShort
    /\ Visible("checkout")
    /\ orderTimers = 0

\* C17: at most one order timer is pending; while it is pending the
\* submit button is disabled, and a submission is accepted only when none
\* is pending, whatever view is shown meanwhile.
C17_SingleFlight ==
    /\ [](orderTimers <= 1 /\ (orderTimers > 0 => submitBtn.disabled))
    /\ [][Accepted => (orderTimers = 0 /\ ~submitBtn.disabled)]_vars

\* C17 witness: the shopper left the Checkout view for the Catalog while
\* the order is processed; the button is still disabled.
C17_ProcessingElsewhere ==
    /\ orderTimers = 1
    /\ submitBtn.disabled
    /\ submitBtn.text = "Processing..."
    /\ Visible("products")

\* C18: once a submission is accepted, its order is eventually created:
\* nothing the shopper can do during processing cancels or blocks it.
C18_OrderCompletes ==
    (orderTimers > 0) ~>
        (orderTimers = 0 /\ orderNumber # <<>> /\ Visible("success"))

\* C18 witness: during processing the shopper went back to the cart and
\* raised a quantity.
C18_EditingWhileProcessing ==
    /\ orderTimers = 1
    /\ Visible("cart")
    /\ Len(cart) = 1
    /\ cart[1].quantity = 2
    /\ summary.subtotal = ExactCents(cart)

\* C19: right after the order timer fires, the cart is empty, the count
\* shows 0, the persisted cart is the empty sequence, the Confirmation
\* view is the one view shown, the form is reset and the submit button is
\* enabled again.
C19_AfterOrder ==
    [][orderTimers' < orderTimers =>
          /\ cart' = <<>>
          /\ cartCount' = 0
          /\ storage' = [has |-> TRUE, text |-> <<>>, closed |-> TRUE]
          /\ \A s \in Sections : (display'[s] = "block") <=> (s = "success")
          /\ form' = [card |-> <<>>, expiry |-> <<>>, cvv |-> <<>>]
          /\ submitBtn' = [text |-> "Complete Purchase", disabled |-> FALSE]
          /\ orderNumber' # <<>>]_vars

\* C19 witness: the Confirmation view after an order for a filled cart.
C19_Confirmation ==
    /\ Visible("success")
    /\ orderNumber # <<>>
    /\ cart = <<>>
    /\ cartCount = 0
    /\ form = EmptyForm
    /\ ~submitBtn.disabled
    /\ orderTimers = 0
    /\ checkoutTotal.written

\* C20: every order number is 'ORD-' followed by exactly 8 decimal
\* digits: for every draw r in [0, 1), floor(10000000 + r * 90000000) is
\* between 10000000 and 99999999.
C20_OrderNumberFormat ==
    /\ orderNumber # <<>> =>
          /\ Len(orderNumber) = 9
          /\ orderNumber[1] = "ORD-"
          /\ \A i \in 2..9 : IsDigit(orderNumber[i])
          /\ orderNumber[2] # "0"
    /\ \A r \in CheckoutDraws :
          LET n == FFloor(FAdd(FFromInt(10000000), FMul(r, FFromInt(90000000))))
          IN  n >= 10000000 /\ n <= 99999999

\* C20 witness: the largest draw gave the order number ORD-99999999.
C20_LargestOrderNumber ==
    orderNumber = <<"ORD-", "9", "9", "9", "9", "9", "9", "9", "9">>

\* C21: in every reachable state exactly one of the four views is
\* visible: every handler or timer that changes the view sets the
\* visibility of all four.
C21_OneView == Cardinality({s \in Sections : display[s] = "block"}) = 1

\* C21 witness: the session went from the Catalog through the Cart view to
\* the Checkout view, which alone is shown.
C21_CheckoutAlone ==
    /\ display = ShowOnly("checkout")
    /\ summary.written
    /\ checkoutTotal.written
    /\ cart # <<>>
    /\ orderTimers = 0
    /\ orderNumber = <<>>

\* C22: the cart icon and the back-to-cart button do nothing (apart from
\* the notice) while the cart is empty: the view, the cart, the persisted
\* cart and the count stay as they are; the Cart view is entered only
\* through this handler and only with a cart that is not empty.
C22_EmptyCartNoOp ==
    /\ [][(cart = <<>> /\ (ClickCartIcon \/ ClickBackToCart)) =>
             UNCHANGED <<display, cart, storage, cartCount, cartItems, summary>>]_vars
    /\ [][(~Visible("cart") /\ Visible("cart")') =>
             /\ cart # <<>>
             /\ ClickCartIcon \/ ClickBackToCart
             /\ UNCHANGED <<cart, storage, cartCount>>]_vars

\* C22 witness: the Checkout view with an empty cart, where back-to-cart
\* is the no-op.
C22_BackToEmptyCart ==
    /\ Visible("checkout")
    /\ cart = <<>>
    /\ cartCount = 0
    /\ checkoutTotal = [written |-> TRUE, total |-> 0]
    /\ cartItems.emptyNotice

\* C23: the Confirmation view is entered only from the Checkout view: the
\* view visible right before the Confirmation view becomes visible is the
\* Checkout view.
C23_ConfirmationFromCheckout ==
    [][(~Visible("success") /\ Visible("success")') => Visible("checkout")]_vars

\* C24: the new-order action in the Confirmation view leaves the Catalog
\* view with an empty cart, a count of 0 and an empty persisted cart.
C24_NewOrder ==
    [][(Visible("success") /\ ~Visible("success")') =>
          /\ display' = ShowOnly("products")
          /\ cart' = <<>>
          /\ cartCount' = 0
          /\ storage'.has /\ storage'.closed /\ storage'.text = <<>>]_vars

\* C24 witness: the Catalog after an order and the new-order action; the
\* hidden Checkout view still holds the total of the order.
C24_CatalogAfterOrder ==
    /\ display = ShowOnly("products")
    /\ orderNumber # <<>>
    /\ cart = <<>>
    /\ cartCount = 0
    /\ Decoded = <<>>
    /\ form = EmptyForm
    /\ checkoutTotal.written
    /\ checkoutTotal.total > 0

\* C25: round trip: a cart that was saved and is loaded at the start of a
\* new session is the identical sequence of line items (sku, name, price,
\* quantity, order), and the count after loading is the sum of the
\* quantities.
C25_RoundTrip ==
    [][(Reload /\ storage = saveCart(cart)) =>
          /\ cart' = cart
          /\ cartCount' = SumQuantity(cart)
          /\ storage' = storage]_vars

\* C25 witness: a page that was loaded again with a cart of two line
\* items that this session had built: nothing is rendered yet, the cart is
\* the saved one.
C25_Reloaded ==
    /\ display = InitialDisplay
    /\ ~summary.written
    /\ cartItems.items = <<>>
    /\ Len(cart) = 2
    /\ cart[1].quantity = 2
    /\ cart[1].price = FFromRatio(PriceLiteral[cart[1].sku], 100)
    /\ storage = saveCart(cart)
    /\ cartCount = 3

\* C26: when the persisted cart is absent or unparseable at session
\* start, loading throws nothing and the session starts with an empty
\* cart and a count of 0; the failure is never surfaced.
C26_LoadRecovers ==
    /\ "SyntaxError" \notin uncaught
    /\ (~storage.has \/ ~storage.closed) => (cart = <<>> /\ cartCount = 0)

C28_CountIsSum ==
    /\ cartCount = SumQuantity(cart)
    /\ cartCount = 0 <=> cart = <<>>

\* C28 witness: one line item of quantity 2 in the Cart view; the count
\* shows 2.
C28_TwoOfOne ==
    /\ Visible("cart")
    /\ Len(cart) = 1
    /\ cart[1].quantity = 2
    /\ cartCount = 2
    /\ Len(cartItems.items) = 1

\* The skus of the line items, in cart order.
Skus(c) == [i \in 1..Len(c) |-> c[i].sku]

\* C29: the cart is kept in first-added order: a product that is not in
\* the cart is appended at the end with quantity 1 and the line items before
\* it are as they were; adding a product that is in the cart and changing a
\* quantity leave every position as it is (a quantity that reaches 0 takes
\* its line item out and keeps the others in order); so a product that was
\* removed and is added again is at the end, with quantity 1.
C29_FirstAddedOrder ==
    [][/\ \A sku \in SkuInputs :
            ClickAddToCart(sku) =>
               IF FindSku(cart, sku) = 0
               THEN /\ Len(cart') = Len(cart) + 1
                    /\ SubSeq(cart', 1, Len(cart)) = cart
                    /\ cart'[Len(cart')].sku = sku
                    /\ cart'[Len(cart')].quantity = 1
               ELSE Skus(cart') = Skus(cart)
       /\ (\E k \in 1..Len(SkuOrder), change \in {-1, 1} :
              ClickQuantityBtn(k, change)) =>
               \/ Skus(cart') = Skus(cart)
               \/ \E i \in 1..Len(cart) : cart' = Without(cart, i)
       /\ (\E k \in 1..Len(SkuOrder) : ClickRemoveBtn(k)) =>
               \E i \in 1..Len(cart) : cart' = Without(cart, i)
       /\ Reload => Skus(cart') = Skus(cart) \/ ~storage.closed]_vars

\* C29 witness: the second product of the catalog is before the first,
\* which was added after it and has quantity 1; the Cart view still lists
\* what it listed before that.
C29_ReAddedLast ==
    /\ Skus(cart) = <<SkuOrder[2], SkuOrder[1]>>
    /\ cart[1].quantity = 2
    /\ cart[2].quantity = 1
    /\ Visible("products")
    /\ Len(cartItems.items) = 1
    /\ cartItems.items[1].sku = SkuOrder[2]

\* C30: while the Cart view or the Checkout view is visible the cart is
\* not empty.
C30_CartViewsNonEmpty ==
    (Visible("cart") \/ Visible("checkout")) => cart # <<>>

\* C31: no order is created for an empty cart: when the order timer fires
\* and generates the order number, the cart holds at least one line item.
C31_OrderOfNonEmptyCart ==
    [][orderTimers' < orderTimers => cart # <<>>]_vars

\* C32: between the acceptance of a submission and the creation of its
\* order the cart does not change: while the order timer is pending, the
\* only step that changes the cart is the one that creates the order.
C32_CartFixedWhileProcessing ==
    [][orderTimers > 0 => (cart' = cart \/ orderTimers' < orderTimers)]_vars

\* C33: whenever the Cart view is visible, the displayed subtotal, tax and
\* total are the ones computed from the current cart; for an empty cart
\* they are zero.
C33_SummaryOfCurrentCart ==
    Visible("cart") =>
        /\ summary = updateCartSummary(cart)
        /\ cart = <<>> => (summary.subtotal = 0 /\ summary.tax = 0 /\ summary.total = 0)

\* C34: whenever the Cart view is visible, the rendered list is the cart
\* position by position (same sku and quantity at each position), and the
\* index bound into the controls of each rendered line item is the index
\* of that line item in the cart.
C34_RenderedIsCart ==
    Visible("cart") =>
        /\ Len(cartItems.items) = Len(cart)
        /\ cartItems.emptyNotice <=> cart = <<>>
        /\ \A i \in 1..Len(cartItems.items) :
              /\ cartItems.items[i].index = i - 1
              /\ cartItems.items[i].index + 1 \in 1..Len(cart)
              /\ cartItems.items[i].sku = cart[i].sku
              /\ cartItems.items[i].quantity = cart[i].quantity

\* C34 witness: the Cart view after the first of two line items was
\* removed: the line item that is left has index 0.
C34_RenderedAfterRemoval ==
    /\ Visible("cart")
    /\ Len(cart) = 1
    /\ cart[1].sku = SkuOrder[2]
    /\ Len(cartItems.items) = 1
    /\ cartItems.items[1].sku = SkuOrder[2]
    /\ cartItems.items[1].index = 0
    /\ storage = saveCart(cart)

\* C35: whenever the Checkout view is visible, the displayed checkout
\* total is subtotal + 10% tax of the current cart, and it is the amount
\* that the Cart view shows as the total of the same cart.
C35_CheckoutTotal ==
    Visible("checkout") =>
        /\ checkoutTotal.written
        /\ checkoutTotal.total = Cents(computeSummary(cart).total)
        /\ checkoutTotal.total = updateCartSummary(cart).total

\* C36: whenever the Confirmation view is visible, the cart is empty, the
\* count is 0 and the persisted cart is the empty sequence; no step taken
\* while the Confirmation view stays visible changes the cart.
C36_ConfirmationEmpty ==
    /\ [](Visible("success") =>
             /\ cart = <<>>
             /\ cartCount = 0
             /\ storage.has /\ storage.closed /\ JSONParse(storage.text) = <<>>)
    /\ [][(Visible("success") /\ Visible("success")') =>
             UNCHANGED <<cart, cartCount, storage>>]_vars

\* C36 witness: the Confirmation view after the order of a cart of two
\* line items, which the hidden Cart view still lists.
C36_ConfirmationAfterTwo ==
    /\ Visible("success")
    /\ cart = <<>>
    /\ cartCount = 0
    /\ Decoded = <<>>
    /\ Len(cartItems.items) = 2
    /\ orderNumber # <<>>
    /\ orderTimers = 0

\* C37: in every reachable state the submit button is disabled if and
\* only if an order timer is pending; it is enabled again once the order
\* is created, and going away from the Checkout view and back during
\* processing does not enable it.
C37_DisabledIffProcessing ==
    /\ [](submitBtn.disabled <=> orderTimers > 0)
    /\ [][orderTimers' < orderTimers => ~submitBtn'.disabled]_vars
    /\ [][(orderTimers > 0 /\ orderTimers' = orderTimers) =>
             submitBtn' = submitBtn]_vars

\* C37 witness: during processing the shopper went back to the cart,
\* raised the quantity and returned to the Checkout view, which shows the
\* new total; the button is still disabled.
C37_BackInCheckout ==
    /\ Visible("checkout")
    /\ orderTimers = 1
    /\ submitBtn = [text |-> "Processing...", disabled |-> TRUE]
    /\ Len(cart) = 1
    /\ cart[1].quantity = 2
    /\ checkoutTotal.total = Cents(calculateTotal(cart))
    /\ form.card = Card16

\* C38: a submission whose expiry is not a well-formed MM/YY (empty,
\* without the '/', or with a month or year that is not a number) is never
\* accepted: it starts no order timer.
C38_MalformedExpiryRejected ==
    [][Accepted => NumericExpiry(form.expiry)]_vars

\* C39: an error message is cleared only by the timer of the rejection
\* that displayed it: the step that clears a message is the firing of the
\* one pending timer, never of an older timer while a later one is pending.
C39_ClearedByOwnTimer ==
    [][(cardError # "" /\ cardError' = "") => errorTimers = 1]_vars

=============================================================================
